---- MODULE Spec2Model ----
(***************************************************************************)
(* Model of src/receipt.py: class Receipt, the regex-driven extraction of  *)
(* the fields of an OCR-scanned receipt.                                   *)
(*                                                                         *)
(* A Python str is a sequence of one-character strings; '' is <<>>.        *)
(* Positions are 1-based: position p is "before character p", and          *)
(* Len(t)+1 is the end of the text.  A regex is modelled by an operator    *)
(* of (t, p) that gives the end position of the match the backtracking     *)
(* engine finds when it starts at p, or 0 when there is none.              *)
(***************************************************************************)
EXTENDS Integers, Sequences, FiniteSets, TLC

VARIABLES file, numbers, ret, entry

vars == <<file, numbers, ret, entry>>

(***************************************************************************)
(* Characters and character classes of Python's re (str patterns).         *)
(***************************************************************************)
NL == "\n"

Digits == <<"0", "1", "2", "3", "4", "5", "6", "7", "8", "9">>

Letters ==
  {"A", "B", "C", "D", "E", "F", "G", "H", "I", "J", "K", "L", "M",
   "N", "O", "P", "Q", "R", "S", "T", "U", "V", "W", "X", "Y", "Z",
   "a", "b", "c", "d", "e", "f", "g", "h", "i", "j", "k", "l", "m",
   "n", "o", "p", "q", "r", "s", "t", "u", "v", "w", "x", "y", "z"}

DigitChars == {Digits[i] : i \in 1..10}

WordChars == DigitChars \cup Letters \cup {"_"}

\* \d
IsDigit(c) == c \in DigitChars

\* \w
IsWord(c) == c \in WordChars

\* \s, and the characters str.strip() removes
IsSpace(c) == c \in {" ", "\t", "\n", "\r", "\f"}

DigitVal(c) == (CHOOSE i \in 1..10 : Digits[i] = c) - 1

\* the literals the patterns and the code name
VENDEDOR == <<"V", "E", "N", "D", "E", "D", "O", "R">>
TIQUETE == <<"T", "I", "Q", "U", "E", "T", "E">>
SUBTOTAL == <<"S", "U", "B", "T", "O", "T", "A", "L">>
TEL == <<"T", "E", "L", ":">>

(***************************************************************************)
(* Regex primitives.                                                       *)
(***************************************************************************)
\* the literal s stands at position p of t
LitAt(t, p, s) ==
  /\ p + Len(s) - 1 <= Len(t)
  /\ \A i \in 1..Len(s) : t[p + i - 1] = s[i]

\* ^ under re.M
AtLineStart(t, p) == p = 1 \/ t[p - 1] = NL

\* $ under re.M
AtLineEnd(t, p) == p = Len(t) + 1 \/ t[p] = NL

WordAt(t, p) == p >= 1 /\ p <= Len(t) /\ IsWord(t[p])

\* \b
WordBoundary(t, p) == WordAt(t, p - 1) # WordAt(t, p)

\* the position after the longest run of digits that starts at p (greedy \d*)
RECURSIVE DigitsEnd(_, _)
DigitsEnd(t, p) ==
  IF p <= Len(t) /\ IsDigit(t[p]) THEN DigitsEnd(t, p + 1) ELSE p

\* the position after greedy .* started at p: '.' matches all but a newline
RECURSIVE LineEnd(_, _)
LineEnd(t, p) ==
  IF p <= Len(t) /\ t[p] # NL THEN LineEnd(t, p + 1) ELSE p

\* t[p..e-1], the text of a match
Slice(t, p, e) == SubSeq(t, p, e - 1)

(***************************************************************************)
(* Python values and outcomes of a call.                                   *)
(***************************************************************************)
Ok(v) == [err |-> "", val |-> <<v>>]

Raise(e) == [err |-> e, val |-> <<>>]

\* the outcome of a method: the attribute self.numbers after it, and what it
\* returned or raised
Result(nums, out) == [numbers |-> nums, out |-> out]

\* str.strip()
RECURSIVE LStrip(_)
LStrip(s) ==
  IF s # <<>> /\ IsSpace(Head(s)) THEN LStrip(Tail(s)) ELSE s

RECURSIVE RStrip(_)
RStrip(s) ==
  IF s # <<>> /\ IsSpace(s[Len(s)]) THEN RStrip(SubSeq(s, 1, Len(s) - 1)) ELSE s

Strip(s) == LStrip(RStrip(s))

\* the first occurrence of sep in s at or after p, 0 without one
RECURSIVE Find(_, _, _)
Find(s, sep, p) ==
  IF p + Len(sep) - 1 > Len(s) THEN 0
  ELSE IF LitAt(s, p, sep) THEN p ELSE Find(s, sep, p + 1)

\* s up to position p, all of s when p is 0
UpTo(s, p) == IF p = 0 THEN s ELSE Slice(s, 1, p)

\* s.split(sep)[0]: s up to the first occurrence of sep, all of s without one
SplitFirst(s, sep) == UpTo(s, Find(s, sep, 1))

\* int(s) accepts s when, stripped of whitespace, it is a non-empty run of
\* digits (no pattern of this program lets a sign or an underscore through)
IsDigitRun(u) == u # <<>> /\ \A i \in 1..Len(u) : IsDigit(u[i])

IsIntLiteral(s) == IsDigitRun(Strip(s))

RECURSIVE DigitsValue(_)
DigitsValue(u) ==
  IF u = <<>> THEN 0
  ELSE 10 * DigitsValue(SubSeq(u, 1, Len(u) - 1)) + DigitVal(u[Len(u)])

\* int(s) for an accepted s
IntOf(s) == DigitsValue(Strip(s))

\* int(s) for an accepted s of any length, as the decimal digits of the value
\* (a 13-digit sku is beyond the 32-bit integers of TLC): leading zeros go
RECURSIVE Canonical(_)
Canonical(u) ==
  IF Len(u) > 1 /\ Head(u) = "0" THEN Canonical(Tail(u)) ELSE u

BigIntOf(s) == Canonical(Strip(s))

RECURSIVE Sum(_)
Sum(xs) == IF xs = <<>> THEN 0 ELSE Head(xs) + Sum(Tail(xs))

Max(xs) == CHOOSE m \in {xs[i] : i \in 1..Len(xs)} : \A i \in 1..Len(xs) : xs[i] <= m

Min(a, b) == IF a <= b THEN a ELSE b

Member(x, xs) == \E i \in 1..Len(xs) : xs[i] = x

(***************************************************************************)
(* The patterns of the scalar fields.                                      *)
(***************************************************************************)
\* ^(\d{2}\/){2}(\d{4})$
DatePattern(t, p) ==
  IF /\ AtLineStart(t, p)
     /\ p + 9 <= Len(t)
     /\ \A i \in {0, 1, 3, 4, 6, 7, 8, 9} : IsDigit(t[p + i])
     /\ t[p + 2] = "/" /\ t[p + 5] = "/"
     /\ AtLineEnd(t, p + 10)
  THEN p + 10 ELSE 0

\* the pattern as re.S would match it: '.' crosses newlines, and the greedy .*
\* runs from p to the last newline that VENDEDOR follows
AddressPatternDotAll(t, p) ==
  IF \A e \in p..Len(t) : ~(t[e] = NL /\ LitAt(t, e + 1, VENDEDOR)) THEN 0
  ELSE CHOOSE e \in p..Len(t) :
         /\ t[e] = NL /\ LitAt(t, e + 1, VENDEDOR)
         /\ \A f \in (e + 1)..Len(t) : ~(t[f] = NL /\ LitAt(t, f + 1, VENDEDOR))

\* .*(?=\nVENDEDOR): '.' stops at a newline, so .* reaches the end of the
\* line of p and no shorter .* is followed by a newline
AddressPattern(t, p) ==
  IF LineEnd(t, p) <= Len(t) /\ LitAt(t, LineEnd(t, p) + 1, VENDEDOR)
  THEN LineEnd(t, p) ELSE 0

\* (?<=TIQUETE\s).*
InvoicePattern(t, p) ==
  IF p >= 9 /\ LitAt(t, p - 8, TIQUETE) /\ IsSpace(t[p - 1])
  THEN LineEnd(t, p) ELSE 0

(***************************************************************************)
(* The patterns of the amounts.                                            *)
(***************************************************************************)
\* ^\d+$
NumberPattern(t, p) ==
  IF /\ AtLineStart(t, p)
     /\ DigitsEnd(t, p) > p
     /\ AtLineEnd(t, DigitsEnd(t, p))
  THEN DigitsEnd(t, p) ELSE 0

\* ^\d+-$
NegativePattern(t, p) ==
  IF /\ AtLineStart(t, p)
     /\ DigitsEnd(t, p) > p
     /\ DigitsEnd(t, p) <= Len(t) /\ t[DigitsEnd(t, p)] = "-"
     /\ AtLineEnd(t, DigitsEnd(t, p) + 1)
  THEN DigitsEnd(t, p) + 1 ELSE 0

(***************************************************************************)
(* The pattern of the raw descriptions.                                    *)
(***************************************************************************)
\* the first alternative, (?:\b(\d{13})\s(.*)\b\n): .* runs to the end of its
\* line, and only there can \n follow
SkuLineEnd(t, p) ==
  IF /\ WordBoundary(t, p)
     /\ p + 13 <= Len(t)
     /\ \A i \in 0..12 : IsDigit(t[p + i])
     /\ IsSpace(t[p + 13])
     /\ LineEnd(t, p + 14) <= Len(t)
     /\ WordBoundary(t, LineEnd(t, p + 14))
  THEN LineEnd(t, p + 14) + 1 ELSE 0

\* the second alternative without its '?', (?:\b(SUBTOTAL)\b\n)
SubtotalLineEnd(t, p) ==
  IF /\ WordBoundary(t, p)
     /\ LitAt(t, p, SUBTOTAL)
     /\ WordBoundary(t, p + 8)
     /\ p + 8 <= Len(t) /\ t[p + 8] = NL
  THEN p + 9 ELSE 0

\* (?:\b(\d{13})\s(.*)\b\n)|(?:\b(SUBTOTAL)\b\n)? : the alternatives in order,
\* and the empty match the '?' allows at every position
DescriptionPattern(t, p) ==
  IF SkuLineEnd(t, p) # 0 THEN SkuLineEnd(t, p)
  ELSE IF SubtotalLineEnd(t, p) # 0 THEN SubtotalLineEnd(t, p)
  ELSE p

\* the tuple of the three groups findall gives for the match at <<p, e>>
DescriptionGroups(t, p, e) ==
  IF e = p THEN <<<<>>, <<>>, <<>>>>
  ELSE IF SkuLineEnd(t, p) # 0
       THEN <<Slice(t, p, p + 13), Slice(t, p + 14, e - 1), <<>>>>
       ELSE <<<<>>, <<>>, Slice(t, p, p + 8)>>

RECURSIVE Flatten(_)
Flatten(ss) == IF ss = <<>> THEN <<>> ELSE Head(ss) \o Flatten(Tail(ss))

(***************************************************************************)
(* The pattern of the raw prices.  A sub-pattern is modelled by the        *)
(* sequence of the end positions of its matches from p, in the order the   *)
(* backtracking engine tries them (greedy first); the engine's match is    *)
(* the first of them.                                                      *)
(***************************************************************************)
\* \s? at d: with the character first, without it second
AfterSpace(t, d) ==
  IF d <= Len(t) /\ IsSpace(t[d]) THEN <<d + 1, d>> ELSE <<d>>

\* \w? at each of the positions xs
AfterWord(t, xs) ==
  Flatten([i \in 1..Len(xs) |->
             IF WordAt(t, xs[i]) THEN <<xs[i] + 1, xs[i]>> ELSE <<xs[i]>>])

\* \b\n at each of the positions xs
AfterBreak(t, xs) ==
  Flatten([i \in 1..Len(xs) |->
             IF WordBoundary(t, xs[i]) /\ xs[i] <= Len(t) /\ t[xs[i]] = NL
             THEN <<xs[i] + 1>> ELSE <<>>])

\* after \d+ has stopped at d: \s?\w?\b\n
PriceLineTail(t, d) == AfterBreak(t, AfterWord(t, AfterSpace(t, d)))

RECURSIVE PriceLineFrom(_, _, _)
PriceLineFrom(t, p, d) ==
  IF d <= p THEN <<>> ELSE PriceLineTail(t, d) \o PriceLineFrom(t, p, d - 1)

\* \b\d+\s?\w?\b\n
PriceLineEnds(t, p) ==
  IF WordBoundary(t, p) THEN PriceLineFrom(t, p, DigitsEnd(t, p)) ELSE <<>>

RECURSIVE TaxedLineFrom(_, _, _)
TaxedLineFrom(t, p, d) ==
  IF d < p + 3 THEN <<>>
  ELSE (IF /\ d + 2 <= Len(t)
           /\ IsSpace(t[d])
           /\ IsWord(t[d + 1])
           /\ WordBoundary(t, d + 2)
           /\ t[d + 2] = NL
        THEN <<d + 3>> ELSE <<>>) \o TaxedLineFrom(t, p, d - 1)

\* \b[0-9]{3,}\s\w\b\n
TaxedLineEnds(t, p) ==
  IF WordBoundary(t, p) THEN TaxedLineFrom(t, p, DigitsEnd(t, p)) ELSE <<>>

\* (?:\b\d+\s?\w?\b\n)+ : one more repetition is tried before stopping
RECURSIVE PriceLinesEnds(_, _)
MorePriceLines(t, es) ==
  Flatten([i \in 1..Len(es) |-> PriceLinesEnds(t, es[i]) \o <<es[i]>>])

PriceLinesEnds(t, p) == MorePriceLines(t, PriceLineEnds(t, p))

\* (?:\b[0-9]{3,}\s\w\b\n)+
RECURSIVE TaxedLinesEnds(_, _)
MoreTaxedLines(t, es) ==
  Flatten([i \in 1..Len(es) |-> TaxedLinesEnds(t, es[i]) \o <<es[i]>>])

TaxedLinesEnds(t, p) == MoreTaxedLines(t, TaxedLineEnds(t, p))

\* (?:\b\d+\s?\w?\b\n)+(?:\b[0-9]{3,}\s\w\b\n)+(?:\b\d+\s?\w?\b\n)+
ThenTaxedLines(t, e1) ==
  Flatten([i \in 1..Len(e1) |-> TaxedLinesEnds(t, e1[i])])

ThenPriceLines(t, e2) ==
  Flatten([i \in 1..Len(e2) |-> PriceLinesEnds(t, e2[i])])

FirstEnd(e3) == IF e3 = <<>> THEN 0 ELSE e3[1]

PricesPattern(t, p) ==
  FirstEnd(ThenPriceLines(t, ThenTaxedLines(t, PriceLinesEnds(t, p))))

(***************************************************************************)
(* search_pattern and get_all_matches.  A pattern is the str the code      *)
(* passes; MatchEnd gives, for each pattern of the program, the end of the *)
(* match found from p (0 without one).                                     *)
(***************************************************************************)
RE_DATE == "^(\\d{2}\\/){2}(\\d{4})$"
RE_ADDRESS == ".*(?=\\nVENDEDOR)"
RE_INVOICE == "(?<=TIQUETE\\s).*"
RE_NUMBER == "^\\d+$"
RE_NEGATIVE == "^\\d+-$"
RE_DESCRIPTION == "(?:\\b(\\d{13})\\s(.*)\\b\\n)|(?:\\b(SUBTOTAL)\\b\\n)?"
RE_PRICES == "(?:\\b\\d+\\s?\\w?\\b\\n)+(?:\\b[0-9]{3,}\\s\\w\\b\\n)+(?:\\b\\d+\\s?\\w?\\b\\n)+"

MatchEnd(pattern, t, p) ==
  CASE pattern = RE_DATE -> DatePattern(t, p)
    [] pattern = RE_ADDRESS -> AddressPattern(t, p)
    [] pattern = RE_INVOICE -> InvoicePattern(t, p)
    [] pattern = RE_NUMBER -> NumberPattern(t, p)
    [] pattern = RE_NEGATIVE -> NegativePattern(t, p)
    [] pattern = RE_DESCRIPTION -> DescriptionPattern(t, p)
    [] pattern = RE_PRICES -> PricesPattern(t, p)

\* re.search(pattern, self.file, flags=re.M).group(): the leftmost match;
\* without one re.search gives None and .group() raises AttributeError
MatchStarts(t, pattern) ==
  {p \in 1..(Len(t) + 1) : MatchEnd(pattern, t, p) # 0}

Leftmost(starts) == CHOOSE q \in starts : \A r \in starts : q <= r

GroupAt(t, pattern, p) == Ok(Slice(t, p, MatchEnd(pattern, t, p)))

SearchAmong(t, pattern, starts) ==
  IF starts = {} THEN Raise("AttributeError")
  ELSE GroupAt(t, pattern, Leftmost(starts))

search_pattern(t, pattern) == SearchAmong(t, pattern, MatchStarts(t, pattern))

\* re.findall(pattern, self.file, flags=re.M): the spans <<start, end>> of the
\* non-overlapping matches, left to right.  The scan goes on at the end of a
\* match, one character further after an empty one; so the non-empty matches
\* are found from one to the next, and an empty match is found at every
\* position that allows one and is not inside a non-empty match
MatchEnds(t, pattern) ==
  [q \in 1..(Len(t) + 1) |-> MatchEnd(pattern, t, q)]

NonEmptyStarts(end) == {q \in DOMAIN end : end[q] > q}

NextStart(starts, p) ==
  CHOOSE c \in starts : c >= p /\ \A r \in starts : r >= p => c <= r

\* the starts of the non-empty matches the scan finds from p on
RECURSIVE FoundFrom(_, _, _)
FoundFrom(end, starts, p) ==
  IF \A q \in starts : q < p THEN {}
  ELSE {NextStart(starts, p)}
         \cup FoundFrom(end, starts, end[NextStart(starts, p)])

SpanAt(end, found, p) ==
  IF p \in found THEN <<p, end[p]>>
  ELSE IF end[p] = p /\ \A q \in found : ~(q < p /\ p < end[q])
       THEN <<p, p>>
       ELSE <<0, 0>>

IsSpan(m) == m[1] # 0

Spans(end, found) ==
  SelectSeq([p \in DOMAIN end |-> SpanAt(end, found, p)], IsSpan)

Scan(end) == Spans(end, FoundFrom(end, NonEmptyStarts(end), 1))

get_all_matches(t, pattern) == Scan(MatchEnds(t, pattern))

(***************************************************************************)
(* The scalar fields.                                                      *)
(***************************************************************************)
get_date(t) == search_pattern(t, RE_DATE)

\* .split("TEL:")[0].strip() of the match, when there is one
BeforeTel(m) ==
  IF m.err # "" THEN m ELSE Ok(Strip(SplitFirst(m.val[1], TEL)))

get_address(t) == BeforeTel(search_pattern(t, RE_ADDRESS))

\* absence as the empty string
get_invoice_number_or_empty(t) ==
  LET m == search_pattern(t, RE_INVOICE) IN IF m.err # "" THEN Ok(<<>>) ELSE m

get_invoice_number(t) == search_pattern(t, RE_INVOICE)

(***************************************************************************)
(* Subtotal and total.                                                     *)
(***************************************************************************)
\* [int(x) for x in self.get_all_matches(r'^\d+$')]
IntsOf(t, ms) == [i \in 1..Len(ms) |-> IntOf(Slice(t, ms[i][1], ms[i][2]))]

FreestandingIntegers(t) == IntsOf(t, get_all_matches(t, RE_NUMBER))

\* the subtotal as the docstring of get_subtotal words it, a sum
SubtotalAsSum(nums) == Sum(nums)

\* the value get_subtotal returns, of the list it has assigned
SubtotalOf(nums) == Max(nums)

\* self.numbers = ns, then max(self.numbers): the list stays assigned when
\* max() of an empty list raises ValueError
AssignAndMax(ns) ==
  IF ns = <<>> THEN Result(<<ns>>, Raise("ValueError"))
  ELSE Result(<<ns>>, Ok(SubtotalOf(ns)))

\* the list kept from call to call and added to, and its sum returned
get_subtotal_accumulating(t, nums) ==
  LET ns == (IF nums = <<>> THEN <<>> ELSE nums[1]) \o FreestandingIntegers(t)
  IN  IF ns = <<>> THEN Result(<<ns>>, Raise("ValueError"))
      ELSE Result(<<ns>>, Ok(Sum(ns)))

\* max(self.numbers, default=0)
get_subtotal_default(t, nums) ==
  LET ns == FreestandingIntegers(t)
  IN  Result(<<ns>>, Ok(IF ns = <<>> THEN 0 ELSE SubtotalOf(ns)))

get_subtotal(t, nums) == AssignAndMax(FreestandingIntegers(t))

\* int(x.replace('-', '')) of the matches ms of ^\d+-$
Amounts(t, ms) ==
  [i \in 1..Len(ms) |-> IntOf(Slice(t, ms[i][1], ms[i][2] - 1))]

Negated(xs) == [i \in 1..Len(xs) |-> xs[i] * (0 - 1)]

\* the amounts of the discount lines, not negated
DiscountsUnsigned(t) == Sum(Amounts(t, get_all_matches(t, RE_NEGATIVE)))

\* sum of int(x.replace('-', ''))*-1 over the matches of ^\d+-$
Discounts(t) == Sum(Negated(Amounts(t, get_all_matches(t, RE_NEGATIVE))))

\* self.numbers as it was when get_total began
NumbersReadStale(before, after) == before

\* the list the membership test of get_total reads: the left operand is
\* evaluated first, so self.numbers is the list get_subtotal has just assigned
NumbersRead(before, after) == after

\* return self.get_subtotal() + discounts
PlusDiscounts(s2, discounts) ==
  IF s2.out.err # "" THEN s2
  ELSE Result(s2.numbers, Ok(s2.out.val[1] + discounts))

\* lines 154-156, s1 being the outcome of the get_subtotal() of the test
TotalAfter(t, nums, discounts, s1) ==
  IF s1.out.err # "" THEN s1
  ELSE IF NumbersRead(nums, s1.numbers) = <<>>
       THEN Result(s1.numbers, Raise("AttributeError"))
  ELSE IF Member(s1.out.val[1] + discounts, NumbersRead(nums, s1.numbers)[1])
       THEN PlusDiscounts(get_subtotal(t, s1.numbers), discounts)
       ELSE get_subtotal(t, s1.numbers)

\* each self.get_subtotal() of get_total reassigns self.numbers
get_total(t, nums) == TotalAfter(t, nums, Discounts(t), get_subtotal(t, nums))

(***************************************************************************)
(* Raw descriptions and raw prices.                                        *)
(***************************************************************************)
\* lines 174-180: the entry a tuple of groups gives, and whether it gives one
HasEntry(item) == (item[1] # <<>> /\ item[2] # <<>>) \/ item[3] # <<>>

EntryOf(item) ==
  IF item[1] # <<>> /\ item[2] # <<>> THEN <<item[1], item[2]>>
  ELSE <<<<>>, item[3]>>

\* the list re.findall returns for the matches ms
dirty_items(t, ms) ==
  [i \in 1..Len(ms) |-> DescriptionGroups(t, ms[i][1], ms[i][2])]

Entries(used) == [i \in 1..Len(used) |-> EntryOf(used[i])]

get_raw_sku_and_descriptions(t) ==
  Entries(SelectSeq(dirty_items(t, get_all_matches(t, RE_DESCRIPTION)), HasEntry))

\* s.split(c) for a one-character separator
RECURSIVE Split(_, _)
SplitAt(s, c, p) ==
  IF p = 0 THEN <<s>>
  ELSE <<Slice(s, 1, p)>> \o Split(SubSeq(s, p + 1, Len(s)), c)

Split(s, c) == SplitAt(s, c, Find(s, <<c>>, 1))

\* the [amount, taxCode] pair of one line of a matched block
PricePair(elem2) ==
  IF Member(" ", elem2)
  THEN <<Split(elem2, " ")[1], Split(elem2, " ")[2]>>
  ELSE <<elem2, <<>>>>

\* line 198: if elem2 != '' and elem2 != ' '
IsPriceLine(elem2) == elem2 # <<>> /\ elem2 # <<" ">>

PricePairs(ls) == [j \in 1..Len(ls) |-> PricePair(ls[j])]

\* the pairs of one matched block elem
BlockPairs(elem) == PricePairs(SelectSeq(Split(elem, NL), IsPriceLine))

raw_prices(t, ms) ==
  Flatten([i \in 1..Len(ms) |-> BlockPairs(Slice(t, ms[i][1], ms[i][2]))])

get_raw_prices(t) == raw_prices(t, get_all_matches(t, RE_PRICES))

(***************************************************************************)
(* Line items and the receipt record.                                      *)
(***************************************************************************)
\* a SUBTOTAL entry takes no price pair: the k-th other entry gets pair k
MergePricesSkippingSubtotal(sku_and_descriptions, prices_and_tax_codes) ==
  LET rank(i) == Cardinality({j \in 1..i : sku_and_descriptions[j][2] # SUBTOTAL})
  IN  [i \in 1..Len(sku_and_descriptions) |->
         IF /\ sku_and_descriptions[i][2] # SUBTOTAL
            /\ rank(i) <= Len(prices_and_tax_codes)
         THEN sku_and_descriptions[i] \o prices_and_tax_codes[rank(i)]
         ELSE sku_and_descriptions[i]]

\* the shorter list padded (zip_longest), an entry without a price gets '0'
MergePricesPadded(sku_and_descriptions, prices_and_tax_codes) ==
  [i \in 1..Len(sku_and_descriptions) |->
     IF i <= Len(prices_and_tax_codes)
     THEN sku_and_descriptions[i] \o prices_and_tax_codes[i]
     ELSE sku_and_descriptions[i] \o <<<<"0">>, <<>>>>]

\* lines 225-230: entry i gets the two fields of price pair i appended, for
\* every i below the length of the shorter list
MergePrices(sku_and_descriptions, prices_and_tax_codes) ==
  [i \in 1..Len(sku_and_descriptions) |->
     IF i <= Min(Len(sku_and_descriptions), Len(prices_and_tax_codes))
     THEN sku_and_descriptions[i] \o prices_and_tax_codes[i]
     ELSE sku_and_descriptions[i]]

\* line 233
IsCompleteItem(x) == Len(x) = 4 /\ x[2] # SUBTOTAL

\* lines 231-241: int() of a malformed sku or total raises ValueError
ItemsOf(kept) ==
  IF \E i \in 1..Len(kept) :
       ~IsIntLiteral(kept[i][1]) \/ ~IsIntLiteral(kept[i][3])
  THEN Raise("ValueError")
  ELSE Ok([i \in 1..Len(kept) |->
             [sku |-> BigIntOf(kept[i][1]), description |-> kept[i][2],
              total |-> IntOf(kept[i][3]), taxCode |-> kept[i][4]]])

CompleteItems(merged) == ItemsOf(SelectSeq(merged, IsCompleteItem))

get_items_group(t) ==
  CompleteItems(MergePrices(get_raw_sku_and_descriptions(t), get_raw_prices(t)))

\* the dict display evaluates its values in order; the first call that raises
\* ends it, and self.numbers keeps what get_subtotal has assigned by then
DictionaryOf(nums, date, address, invoice, subtotal, total, items) ==
  IF date.err # "" THEN Result(nums, date)
  ELSE IF address.err # "" THEN Result(nums, address)
  ELSE IF invoice.err # "" THEN Result(nums, invoice)
  ELSE IF subtotal.out.err # "" THEN subtotal
  ELSE IF total.out.err # "" THEN total
  ELSE IF items.err # "" THEN Result(total.numbers, items)
  ELSE Result(total.numbers,
              Ok([date |-> date.val[1], storeAddress |-> address.val[1],
                  invoiceNumber |-> invoice.val[1],
                  subtotal |-> subtotal.out.val[1],
                  total |-> total.out.val[1],
                  lineItems |-> items.val[1]]))

\* the entries after "subtotal", get_total starting from the self.numbers
\* get_subtotal has left
DictionaryAfter(t, nums, subtotal) ==
  DictionaryOf(nums, get_date(t), get_address(t), get_invoice_number(t),
               subtotal, get_total(t, subtotal.numbers), get_items_group(t))

get_receipt_dictionary(t, nums) ==
  DictionaryAfter(t, nums, get_subtotal(t, nums))

(***************************************************************************)
(* The receipt texts.  self.file is set once, by __init__, from the OCR    *)
(* output; a text is a sequence of lines, each ended by a newline, and the *)
(* last newline may be missing.                                            *)
(***************************************************************************)
MaxNumLines == 4
MaxHeadLines == 4
MaxDescLines == 4
MaxTotalLines == 2

SeqsUpTo(S, n) == UNION {[1..k -> S] : k \in 0..n}

TextOf(ls) == Flatten([i \in 1..Len(ls) |-> ls[i] \o <<NL>>])

Unterminated(t) == IF t = <<>> THEN t ELSE SubSeq(t, 1, Len(t) - 1)

Texts(ls) == {TextOf(ls), Unterminated(TextOf(ls))}

\* lines of amounts and of discounts
NumLines ==
  {<<"1", "0", "0">>,
   <<"1", "5">>,
   <<"0", "8", "5">>,
   <<"1", "5", "-">>}

\* lines of the head of a receipt
HeadLines ==
  {<<"1", "2", "3", " ", "M", "a", "i", "n", " ", "S", "t">>,
   <<"T", "E", "L", ":", "5", "5", "5">>,
   <<"V", "E", "N", "D", "E", "D", "O", "R">>,
   <<"C", "L", " ", "5", " ", "T", "E", "L", ":", "5", "5", "5">>}

\* lines of the item descriptions
DescLines ==
  {<<"1", "2", "3", "4", "5", "6", "7", "8", "9", "0", "1", "2", "3", " ", "W", "I", "D", "G", "E", "T">>,
   <<"S", "U", "B", "T", "O", "T", "A", "L">>}

\* blocks of lines of item prices
PriceBlocks ==
  {<<>>,
   <<<<"5", "0", "0", " ", "A">>, <<"1", "0", "0", "0">>>>,
   <<<<"5", "0", "0", " ", "A">>, <<"7", "5", "0", " ", "B">>, <<"1", "0", "0", "0">>>>,
   <<<<"5", "0", "0", " ", "A">>, <<"7", "5", "0", " ", "B">>, <<"1", "2", "3", "A">>>>}

\* lines of the totals of a receipt
TotalLines ==
  {<<"1", "0", "0", "-">>,
   <<"1", "4", "0", "0">>}

\* the sections a whole receipt is put together from
Headers ==
  {<<<<"0", "1", "/", "0", "2", "/", "2", "0", "2", "4">>, <<"C", "L", " ", "5", " ", "T", "E", "L", ":", "5", "5", "5">>, <<"V", "E", "N", "D", "E", "D", "O", "R">>, <<"T", "I", "Q", "U", "E", "T", "E", " ", "4", "5">>>>,
   <<<<"1", "/", "0", "2", "/", "2", "0", "2", "4">>, <<"C", "L", " ", "5", " ", "T", "E", "L", ":", "5", "5", "5">>, <<"V", "E", "N", "D", "E", "D", "O", "R">>, <<"T", "I", "Q", "U", "E", "T", "E", " ", "4", "5">>>>,
   <<<<"0", "1", "/", "0", "2", "/", "2", "0", "2", "4">>, <<"C", "L", " ", "5">>, <<"T", "I", "Q", "U", "E", "T", "E", " ", "4", "5">>>>,
   <<<<"0", "1", "/", "0", "2", "/", "2", "0", "2", "4">>, <<"C", "L", " ", "5", " ", "T", "E", "L", ":", "5", "5", "5">>, <<"V", "E", "N", "D", "E", "D", "O", "R">>, <<"T", "I", "Q", "U", "E", "T", "E", "4", "5">>>>,
   <<<<"C", "L", " ", "5">>>>}

ItemBlocks ==
  {<<<<"1", "2", "3", "4", "5", "6", "7", "8", "9", "0", "1", "2", "3", " ", "W", "I", "D", "G", "E", "T">>, <<"1", "2", "3", "4", "5", "6", "7", "8", "9", "0", "1", "2", "4", " ", "G", "A", "D", "G", "E", "T">>, <<"S", "U", "B", "T", "O", "T", "A", "L">>, <<"5", "0", "0", " ", "A">>, <<"1", "0", "0", "0", " ", "A">>, <<"1", "5", "0", "0">>>>,
   <<<<"1", "2", "3", "4", "5", "6", "7", "8", "9", "0", "1", "2", "3", " ", "W", "I", "D", "G", "E", "T">>, <<"1", "2", "3", "A">>, <<"5", "0", "0", " ", "A">>, <<"1", "0", "0", "0", " ", "A">>>>,
   <<<<"1", "2", "3", "4", "5", "6", "7", "8", "9", "0", "1", "2", "3", " ", "W", "I", "D", "G", "E", "T">>, <<"5", "0", "0", " ", "A">>, <<"5", "0", "0", " ", "A">>, <<"5", "0", "0", " ", "A">>>>}

NumberTexts == UNION {Texts(ls) : ls \in SeqsUpTo(NumLines, MaxNumLines)}

HeadTexts == UNION {Texts(ls) : ls \in SeqsUpTo(HeadLines, MaxHeadLines)}

ItemTexts ==
  {TextOf(d \o p) : d \in SeqsUpTo(DescLines, MaxDescLines), p \in PriceBlocks}

ReceiptTexts ==
  {TextOf(h \o b \o n) :
      h \in Headers, b \in ItemBlocks, n \in SeqsUpTo(TotalLines, MaxTotalLines)}

(***************************************************************************)
(* The state: self.file, the attribute self.numbers (<<>> until            *)
(* get_subtotal has assigned it, <<list>> after), the last call with what  *)
(* it returned or raised, and what self.numbers was when that call began.  *)
(***************************************************************************)
Call(op, out) == [op |-> op, out |-> out]

Fresh == /\ numbers = <<>>
         /\ ret = Call("__init__", Ok(<<>>))
         /\ entry = <<>>

Init == file \in ReceiptTexts /\ Fresh

InitNumbers == file \in NumberTexts /\ Fresh

InitHeads == file \in HeadTexts /\ Fresh

InitItems == file \in ItemTexts /\ Fresh

GetDate ==
  /\ ret' = Call("get_date", get_date(file))
  /\ entry' = numbers
  /\ UNCHANGED <<file, numbers>>

GetAddress ==
  /\ ret' = Call("get_address", get_address(file))
  /\ entry' = numbers
  /\ UNCHANGED <<file, numbers>>

GetInvoiceNumber ==
  /\ ret' = Call("get_invoice_number", get_invoice_number(file))
  /\ entry' = numbers
  /\ UNCHANGED <<file, numbers>>

GetSubtotal ==
  /\ numbers' = get_subtotal(file, numbers).numbers
  /\ ret' = Call("get_subtotal", get_subtotal(file, numbers).out)
  /\ entry' = numbers
  /\ UNCHANGED file

GetTotal ==
  /\ numbers' = get_total(file, numbers).numbers
  /\ ret' = Call("get_total", get_total(file, numbers).out)
  /\ entry' = numbers
  /\ UNCHANGED file

GetRawSkuAndDescriptions ==
  /\ ret' = Call("get_raw_sku_and_descriptions", Ok(get_raw_sku_and_descriptions(file)))
  /\ entry' = numbers
  /\ UNCHANGED <<file, numbers>>

GetRawPrices ==
  /\ ret' = Call("get_raw_prices", Ok(get_raw_prices(file)))
  /\ entry' = numbers
  /\ UNCHANGED <<file, numbers>>

GetItemsGroup ==
  /\ ret' = Call("get_items_group", get_items_group(file))
  /\ entry' = numbers
  /\ UNCHANGED <<file, numbers>>

GetReceiptDictionary ==
  /\ numbers' = get_receipt_dictionary(file, numbers).numbers
  /\ ret' = Call("get_receipt_dictionary", get_receipt_dictionary(file, numbers).out)
  /\ entry' = numbers
  /\ UNCHANGED file

Next ==
  \/ GetDate
  \/ GetAddress
  \/ GetInvoiceNumber
  \/ GetSubtotal
  \/ GetTotal
  \/ GetRawSkuAndDescriptions
  \/ GetRawPrices
  \/ GetItemsGroup
  \/ GetReceiptDictionary

Spec == Init /\ [][Next]_vars

SpecNumbers == InitNumbers /\ [][Next]_vars

SpecHeads == InitHeads /\ [][Next]_vars

SpecItems == InitItems /\ [][Next]_vars

(***************************************************************************)
(* The properties.  They speak of the text by its lines, not by the        *)
(* patterns: LinesOf(t) are the lines between the newlines of t.           *)
(***************************************************************************)
LinesOf(t) == Split(t, NL)

LineSet(t) == {LinesOf(t)[i] : i \in 1..Len(LinesOf(t))}

IsDigitsOnly(l) == l # <<>> /\ \A i \in 1..Len(l) : IsDigit(l[i])

IsDiscountLine(l) ==
  /\ Len(l) >= 2
  /\ l[Len(l)] = "-"
  /\ \A i \in 1..(Len(l) - 1) : IsDigit(l[i])

IsDateLine(l) ==
  /\ Len(l) = 10
  /\ \A i \in {1, 2, 4, 5, 7, 8, 9, 10} : IsDigit(l[i])
  /\ l[3] = "/" /\ l[6] = "/"

\* the values of the lines made only of digits, in the order of the text
FreestandingValues(t) ==
  LET ls == SelectSeq(LinesOf(t), IsDigitsOnly)
  IN  [i \in 1..Len(ls) |-> DigitsValue(ls[i])]

\* the sum of the negated values of the lines 'digits-'
DiscountSum(t) ==
  LET ls == SelectSeq(LinesOf(t), IsDiscountLine)
  IN  Sum([i \in 1..Len(ls) |-> 0 - DigitsValue(SubSeq(ls[i], 1, Len(ls[i]) - 1))])

HasDateLine(t) == \E l \in LineSet(t) : IsDateLine(l)

\* the newlines of t that VENDEDOR follows
Boundaries(t) == {p \in 1..Len(t) : t[p] = NL /\ LitAt(t, p + 1, VENDEDOR)}

FirstBoundary(t) == CHOOSE p \in Boundaries(t) : \A q \in Boundaries(t) : p <= q

\* the line that the newline at p ends
LineBefore(t, p) ==
  LET starts == {q \in 1..p : AtLineStart(t, q)}
  IN  Slice(t, CHOOSE q \in starts : \A r \in starts : r <= q, p)

HasTiquetePrefix(t) ==
  \E p \in 1..Len(t) :
     LitAt(t, p, TIQUETE) /\ p + 7 <= Len(t) /\ IsSpace(t[p + 7])

AllFieldsPresent(t) ==
  HasDateLine(t) /\ Boundaries(t) # {} /\ HasTiquetePrefix(t)

\* C1: for a text with a line made only of digits, get_total returns
\* subtotal + discountSum when that is one of the freestanding integers, and
\* the subtotal otherwise; the subtotal is the greatest freestanding integer
\* and discountSum the sum of the negated values of the lines 'digits-'.
TotalAppliesRecognisedDiscount ==
  LET vals == FreestandingValues(file)
      candidate == Max(vals) + DiscountSum(file)
  IN  (ret.op = "get_total" /\ vals # <<>>) =>
         ret.out = Ok(IF Member(candidate, vals) THEN candidate ELSE Max(vals))

\* get_total has returned 85 for freestanding integers with maximum 100 and
\* the discount line 15-
TotalDiscountApplied ==
  /\ ret.op = "get_total"
  /\ FreestandingValues(file) # <<>>
  /\ Max(FreestandingValues(file)) = 100
  /\ DiscountSum(file) = 0 - 15
  /\ ret.out = Ok(85)

\* C2, as the claim words it: get_address returns the text from the start up
\* to the line VENDEDOR, cut at the first TEL: and trimmed.
AddressIsTextBeforeVendedor ==
  (ret.op = "get_address" /\ Boundaries(file) # {}) =>
     ret.out = Ok(Strip(SplitFirst(Slice(file, 1, FirstBoundary(file)), TEL)))

\* C2, amended: get_address returns the one line that ends at the first
\* newline VENDEDOR follows, cut at the first TEL: and trimmed, and raises
\* when no newline is followed by VENDEDOR.
AddressIsLineBeforeVendedor ==
  ret.op = "get_address" =>
     IF Boundaries(file) = {} THEN ret.out = Raise("AttributeError")
     ELSE ret.out =
            Ok(Strip(SplitFirst(LineBefore(file, FirstBoundary(file)), TEL)))

ExampleHead ==
  <<"1", "2", "3", " ", "M", "a", "i", "n", " ", "S", "t", "\n", "T", "E", "L", ":", "5", "5", "5", "\n", "V", "E", "N", "D", "E", "D", "O", "R">>

\* get_address has returned '' for the text 123 Main St / TEL:555 / VENDEDOR
AddressOfExampleIsEmpty ==
  /\ ret.op = "get_address"
  /\ LitAt(file, 1, ExampleHead)
  /\ ret.out = Ok(<<>>)

\* the items the claim names: pair i of each list joined, for i up to the
\* length of the shorter list and a description other than SUBTOTAL, in order
PairedItems(D, P) ==
  LET m == IF Len(D) <= Len(P) THEN Len(D) ELSE Len(P)
      kept(i) == D[i][2] # SUBTOTAL
      idx == SelectSeq([i \in 1..m |-> i], kept)
  IN  [k \in 1..Len(idx) |->
         [sku |-> BigIntOf(D[idx[k]][1]), description |-> D[idx[k]][2],
          total |-> IntOf(P[idx[k]][1]), taxCode |-> P[idx[k]][2]]]

ExampleDescriptions ==
  <<<<<<"1", "2", "3", "4", "5", "6", "7", "8", "9", "0", "1", "2", "3">>, <<"W", "I", "D", "G", "E", "T">>>>,
    <<<<>>, SUBTOTAL>>>>

ExamplePrices == <<<<<<"5", "0", "0">>, <<"A">>>>, <<<<"1", "0", "0", "0">>, <<>>>>>>

\* C3: the list get_items_group returns is, in the order of the descriptions,
\* the entries i below the length of the shorter list whose description is
\* not SUBTOTAL, each with price pair i; and the lists of the example give the
\* one item WIDGET with total 500 and tax code A.
ItemsArePairedByIndex ==
  /\ (ret.op = "get_items_group" /\ ret.out.err = "") =>
        ret.out.val[1] =
          PairedItems(get_raw_sku_and_descriptions(file), get_raw_prices(file))
  /\ CompleteItems(MergePrices(ExampleDescriptions, ExamplePrices)) =
       Ok(<<[sku |-> <<"1", "2", "3", "4", "5", "6", "7", "8", "9", "0", "1", "2", "3">>,
             description |-> <<"W", "I", "D", "G", "E", "T">>,
             total |-> 500, taxCode |-> <<"A">>]>>)

\* get_items_group has returned items where a SUBTOTAL entry took a price pair
\* before a later item, and there were more descriptions than prices
SubtotalConsumedAPrice ==
  LET D == get_raw_sku_and_descriptions(file)
      P == get_raw_prices(file)
  IN  /\ ret.op = "get_items_group"
      /\ ret.out.err = ""
      /\ Len(P) > 0 /\ Len(D) > Len(P)
      /\ \E i, j \in 1..Len(P) : i < j /\ D[i][2] = SUBTOTAL /\ D[j][2] # SUBTOTAL
      /\ Len(ret.out.val[1]) >= 2

\* C4, as the claim words it: an item whose total is no integer is left out,
\* get_items_group does not raise, and the record is still built.
MalformedItemNeverAborts ==
  /\ ret.op = "get_items_group" => ret.out.err = ""
  /\ (/\ ret.op = "get_receipt_dictionary"
      /\ AllFieldsPresent(file)
      /\ FreestandingValues(file) # <<>>) => ret.out.err = ""

\* C5: without a date line, without a newline followed by VENDEDOR, or without
\* TIQUETE and a whitespace, the accessor of that field raises, and
\* get_receipt_dictionary raises and returns no record.
MissingFieldFails ==
  /\ (ret.op = "get_date" /\ ~HasDateLine(file)) => ret.out = Raise("AttributeError")
  /\ (ret.op = "get_address" /\ Boundaries(file) = {}) =>
        ret.out = Raise("AttributeError")
  /\ (ret.op = "get_invoice_number" /\ ~HasTiquetePrefix(file)) =>
        ret.out = Raise("AttributeError")
  /\ (ret.op = "get_receipt_dictionary" /\ ~AllFieldsPresent(file)) =>
        ret.out = Raise("AttributeError")

\* get_receipt_dictionary has raised for a text with a date and an address
\* but no invoice number
DictionaryFailedWithoutInvoice ==
  /\ ret.op = "get_receipt_dictionary"
  /\ HasDateLine(file) /\ Boundaries(file) # {} /\ ~HasTiquetePrefix(file)
  /\ ret.out = Raise("AttributeError")

\* C6: a call of get_receipt_dictionary that follows one on the same Receipt
\* returns (or raises) the same.
DictionaryIdempotent ==
  [][(ret.op = "get_receipt_dictionary" /\ ret'.op = "get_receipt_dictionary")
       => ret'.out = ret.out]_vars

\* get_receipt_dictionary has returned a record with line items when
\* self.numbers was already set by an earlier call
DictionaryRebuilt ==
  /\ ret.op = "get_receipt_dictionary"
  /\ entry # <<>>
  /\ ret.out.err = ""
  /\ Len(ret.out.val[1].lineItems) >= 2
  /\ ret.out.val[1].total < ret.out.val[1].subtotal

EmptyRawListGivesNoItems ==
  (/\ ret.op = "get_items_group"
   /\ \/ get_raw_sku_and_descriptions(file) = <<>>
      \/ get_raw_prices(file) = <<>>) => ret.out = Ok(<<>>)

\* get_items_group has returned no items for descriptions without prices
ItemsWithoutPrices ==
  /\ ret.op = "get_items_group"
  /\ get_raw_sku_and_descriptions(file) # <<>>
  /\ get_raw_prices(file) = <<>>
  /\ ret.out = Ok(<<>>)

\* C9: whatever was called before, get_total returns what it returns on a
\* Receipt just constructed, and self.numbers, once get_subtotal or get_total
\* has run, is the list of the freestanding integers of the text.
TotalIndependentOfCallOrder ==
  /\ ret.op = "get_total" => ret.out = get_total(file, <<>>).out
  /\ ret.op \in {"get_subtotal", "get_total"} => numbers # <<>>
  /\ numbers # <<>> => numbers[1] = FreestandingValues(file)

\* get_total has applied a discount when self.numbers was already set by an
\* earlier call
TotalAfterEarlierCalls ==
  /\ ret.op = "get_total"
  /\ entry # <<>>
  /\ ret.out.err = ""
  /\ DiscountSum(file) # 0
  /\ ret.out = Ok(Max(FreestandingValues(file)) + DiscountSum(file))

\* C10: without a line made only of digits, get_subtotal and get_total raise
\* ValueError, and so does get_receipt_dictionary when the date, the address
\* and the invoice number are all there.
NoNumbersFails ==
  FreestandingValues(file) = <<>> =>
     /\ ret.op \in {"get_subtotal", "get_total"} => ret.out = Raise("ValueError")
     /\ (ret.op = "get_receipt_dictionary" /\ AllFieldsPresent(file)) =>
           ret.out = Raise("ValueError")

\* get_receipt_dictionary has raised ValueError for a text that has the three
\* scalar fields and no line made only of digits
DictionaryFailedWithoutNumbers ==
  /\ ret.op = "get_receipt_dictionary"
  /\ AllFieldsPresent(file)
  /\ FreestandingValues(file) = <<>>
  /\ ret.out = Raise("ValueError")

====
